---- MODULE Spec2Model ----
(***************************************************************************)
(* Model of automated-cloud-resource-detector-lambda.py: the nine probes,  *)
(* save_report_to_s3, send_alert and lambda_handler.                       *)
(*                                                                         *)
(* Python values are modelled as follows.                                  *)
(*   - an atomic string (an id, a zone) is a TLA+ string;                  *)
(*   - a composed string (an f-string, a join) is a sequence of tokens,    *)
(*     the empty string being << >>;                                       *)
(*   - a value whose type varies (None or a string, an int or "-") is a    *)
(*     tagged pair <<type, payload>>;                                      *)
(*   - a list is a sequence, a dict is a record.                           *)
(* The AWS account (what every list/describe call answers) is the variable *)
(* cloud, fixed when the invocation starts; whether a call raises is       *)
(* decided when the call is made.                                          *)
(***************************************************************************)
EXTENDS Integers, Sequences, FiniteSets, TLC

VARIABLES
    pc,               \* position of lambda_handler
    cloud,            \* the account: the answer of each list/describe call
    now,              \* datetime.now(timezone.utc), in hours
    EC2_UNUSED_DAYS,  \* module globals, read from the environment at import
    EBS_UNUSED_DAYS,
    S3_BUCKET_NAME,
    SNS_TOPIC_ARN,
    report_data,      \* locals of lambda_handler
    report_path,
    s3_message,
    summary_message,
    alert_message,
    api_calls,        \* names of the boto3 calls made so far, in order
    put_calls,        \* arguments of the s3_client.put_object calls made
    publish_calls,    \* arguments of the sns_client.publish calls made
    stdout,           \* lines printed
    exc,              \* the call whose exception left lambda_handler
    result            \* the value lambda_handler returned

vars == <<pc, cloud, now, EC2_UNUSED_DAYS, EBS_UNUSED_DAYS, S3_BUCKET_NAME,
          SNS_TOPIC_ARN, report_data, report_path, s3_message, summary_message,
          alert_message, api_calls, put_calls, publish_calls, stdout, exc, result>>

config == <<cloud, now, EC2_UNUSED_DAYS, EBS_UNUSED_DAYS, S3_BUCKET_NAME, SNS_TOPIC_ARN>>

---------------------------------------------------------------------------
(* Bounds of the model. *)

\* the account holds at most this many resources, all kinds together
MaxResources == 2
\* oldest instance of the threshold study, in whole days
MaxAgeDays == 3
\* largest EC2_UNUSED_DAYS of the threshold study
MaxThreshold == 3

(* Program constants. *)

\* timedelta.days counts whole 24-hour days
HoursPerDay == 24
\* os.getenv("EC2_UNUSED_DAYS", "7")
EC2_DEFAULT_DAYS == 7
\* os.getenv("EBS_UNUSED_DAYS", "7")
EBS_DEFAULT_DAYS == 7
\* "statusCode": 200
STATUS_OK == 200

---------------------------------------------------------------------------
(* Python values. *)

NoneVal == <<"NoneType", << >> >>
PyStr(tokens) == <<"str", tokens>>
PyInt(n) == <<"int", n>>

\* bool(v) of a value that is None or a string
Truthy(v) == v[1] = "str" /\ v[2] # << >>

\* str(v) of a tagged value, as the tokens an f-string or csv cell gets
Text(v) == IF v[1] = "int" THEN <<ToString(v[2])>>
           ELSE IF v[1] = "str" THEN v[2]
           ELSE <<"None">>

Range(s) == {s[i] : i \in 1..Len(s)}

SeqsUpTo(S, n) == UNION {[1..k -> S] : k \in 0..n}

\* [f(x) for x in xs]
Map(xs, f(_)) == [i \in 1..Len(xs) |-> f(xs[i])]

\* sep.join(parts), parts being token sequences
RECURSIVE Join(_, _)
Join(parts, sep) ==
    IF parts = << >> THEN << >>
    ELSE IF Len(parts) = 1 THEN parts[1]
    ELSE parts[1] \o sep \o Join(Tail(parts), sep)

RECURSIVE Flatten(_)
Flatten(xss) == IF xss = << >> THEN << >> ELSE xss[1] \o Flatten(Tail(xss))

\* list.extend
extend_front(list, items) == items \o list

extend(list, items) == list \o items

\* (a - b).days of two datetimes given in hours: timedelta normalises with
\* floor division, so the count is negative for b later than a
days(a, b) == (a - b) \div HoursPerDay

ERROR == "<raises>"
NoException == "<none>"
DASH == PyStr(<<"-">>)
NL == "\n"

---------------------------------------------------------------------------
(* The probes. Each takes what its list/describe call answered. *)

get_unused_ec2_instances_gt(instances, now_, threshold) ==
    LET all == Flatten(Map(instances.Reservations, LAMBDA r : r.Instances))
        old == SelectSeq(all, LAMBDA i : days(now_, i.LaunchTime) > threshold)
    IN  Map(old, LAMBDA i : <<"EC2 Instance", i.InstanceId,
                              i.Placement.AvailabilityZone,
                              PyInt(days(now_, i.LaunchTime))>>)

get_unused_ec2_instances(instances, now_, threshold) ==
    LET all == Flatten(Map(instances.Reservations, LAMBDA r : r.Instances))
        old == SelectSeq(all, LAMBDA i : days(now_, i.LaunchTime) >= threshold)
    IN  Map(old, LAMBDA i : <<"EC2 Instance", i.InstanceId,
                              i.Placement.AvailabilityZone,
                              PyInt(days(now_, i.LaunchTime))>>)

get_unused_ebs_volumes(volumes, now_, threshold) ==
    LET old == SelectSeq(volumes.Volumes,
                         LAMBDA v : days(now_, v.CreateTime) >= threshold)
    IN  Map(old, LAMBDA v : <<"EBS Volume", v.VolumeId, v.AvailabilityZone, DASH>>)

get_unused_elastic_ips(response) ==
    LET free == SelectSeq(response.Addresses,
                          LAMBDA addr : "InstanceId" \notin DOMAIN addr)
    IN  Map(free, LAMBDA addr : <<"Elastic IP", addr.PublicIp,
                                  addr.NetworkBorderGroup, DASH>>)

get_unused_load_balancers(response) ==
    LET active == SelectSeq(response.LoadBalancers,
                            LAMBDA lb : lb.State.Code = "active")
    IN  Map(active, LAMBDA lb : <<"Load Balancer", lb.LoadBalancerName,
                                  lb.AvailabilityZones[1].ZoneName, DASH>>)

get_unused_rds_instances(response) ==
    LET stopped == SelectSeq(response.DBInstances,
                             LAMBDA db : db.DBInstanceStatus = "stopped")
    IN  Map(stopped, LAMBDA db : <<"RDS Instance", db.DBInstanceIdentifier,
                                   db.AvailabilityZone, DASH>>)

\* The bucket loop. get_bucket_location is called outside the try block, so
\* its exception leaves the function; the exception of list_objects_v2 is
\* caught and the bucket skipped. A bucket of the account carries what its
\* two follow-up calls answer.
RECURSIVE bucket_loop(_, _, _)
bucket_loop(buckets, unused_buckets, calls) ==
    IF buckets = << >>
    THEN [raised |-> FALSE, exc |-> NoException, value |-> unused_buckets, calls |-> calls]
    ELSE LET bucket == buckets[1]
             region == bucket.LocationConstraint
         IN  IF region = ERROR
             THEN [raised |-> TRUE, exc |-> "get_bucket_location",
                   value |-> << >>, calls |-> Append(calls, "get_bucket_location")]
             ELSE bucket_loop(
                     Tail(buckets),
                     IF bucket.Objects = "NoContents"
                     THEN Append(unused_buckets, <<"S3 Bucket", bucket.Name, region, DASH>>)
                     ELSE unused_buckets,
                     calls \o <<"get_bucket_location", "list_objects_v2">>)

get_unused_s3_buckets(response) == bucket_loop(response.Buckets, << >>, << >>)

get_unused_dynamodb_tables(response) ==
    Map(response.TableNames, LAMBDA table : <<"DynamoDB Table", table, "-", DASH>>)

get_unused_cloudfront_distributions(response) ==
    IF "DistributionList" \in DOMAIN response
       /\ "Items" \in DOMAIN response.DistributionList
    THEN LET off == SelectSeq(response.DistributionList.Items,
                              LAMBDA dist : ~dist.Enabled)
         IN  Map(off, LAMBDA dist : <<"CloudFront Distribution", dist.Id, "-", DASH>>)
    ELSE << >>

get_unused_lambda_functions(response) ==
    Map(response.Functions, LAMBDA fn : <<"Lambda Function", fn.FunctionName, "-", DASH>>)

---------------------------------------------------------------------------
(* S3 and e-mail handling. *)

CSV_HEADER == <<"Resource Type", "ID", "Region/Zone", "Unused Days">>

\* csv.writer writes str() of every cell
csv_row(res) == <<res[1], res[2], res[3]>> \o Text(res[4])

\* datetime.now().strftime('%Y-%m-%d'): one name per calendar day
report_filename(now_) ==
    <<"unused-resources-report-", ToString(now_ \div HoursPerDay), ".csv">>

put_object_args(data, bucket, now_) ==
    [Bucket |-> bucket[2], Key |-> report_filename(now_),
     Body |-> <<CSV_HEADER>> \o Map(data, csv_row), ContentType |-> "text/csv"]

\* put_ok: whether s3_client.put_object returns (TRUE) or raises (FALSE)
save_report_to_s3_always(data, bucket, now_, put_ok) ==
    IF Truthy(bucket)
    THEN [raised |-> ~put_ok,
          puts   |-> <<put_object_args(data, bucket, now_)>>,
          value  |-> IF put_ok
                     THEN PyStr(<<"s3://">> \o bucket[2] \o <<"/">> \o report_filename(now_))
                     ELSE NoneVal]
    ELSE [raised |-> FALSE, puts |-> << >>, value |-> NoneVal]

save_report_to_s3_any_bucket(data, bucket, now_, put_ok) ==
    IF data # << >>
    THEN [raised |-> ~put_ok,
          puts   |-> <<put_object_args(data, bucket, now_)>>,
          value  |-> IF put_ok
                     THEN PyStr(<<"s3://">> \o Text(bucket) \o <<"/">> \o report_filename(now_))
                     ELSE NoneVal]
    ELSE [raised |-> FALSE, puts |-> << >>, value |-> NoneVal]

save_report_to_s3(data, bucket, now_, put_ok) ==
    IF Truthy(bucket) /\ data # << >>
    THEN [raised |-> ~put_ok,
          puts   |-> <<put_object_args(data, bucket, now_)>>,
          value  |-> IF put_ok
                     THEN PyStr(<<"s3://">> \o bucket[2] \o <<"/">> \o report_filename(now_))
                     ELSE NoneVal]
    ELSE [raised |-> FALSE, puts |-> << >>, value |-> NoneVal]

\* publish_ok: whether sns_client.publish returns (TRUE) or raises (FALSE)
send_alert_twice(subject, message, topic, publish_ok) ==
    IF Truthy(topic)
    THEN [raised    |-> ~publish_ok,
          publishes |-> <<[TopicArn |-> topic[2], Subject |-> subject, Message |-> message],
                          [TopicArn |-> topic[2], Subject |-> subject, Message |-> message]>>,
          printed   |-> << >>]
    ELSE [raised |-> FALSE, publishes |-> << >>,
          printed |-> <<"SNS_TOPIC_ARN is not set. Skipping alert.">>]

send_alert(subject, message, topic, publish_ok) ==
    IF Truthy(topic)
    THEN [raised    |-> ~publish_ok,
          publishes |-> <<[TopicArn |-> topic[2], Subject |-> subject, Message |-> message]>>,
          printed   |-> << >>]
    ELSE [raised |-> FALSE, publishes |-> << >>,
          printed |-> <<"SNS_TOPIC_ARN is not set. Skipping alert.">>]

---------------------------------------------------------------------------
(* The texts lambda_handler composes. *)

NO_S3_REPORT == <<"No S3 report generated.">>
NO_UNUSED_RESOURCES == <<"No unused resources found!">>

s3_message_of(path) ==
    IF Truthy(path)
    THEN <<"Report Saved To S3: ">> \o Text(path)
    ELSE NO_S3_REPORT

summary_line(res) == <<"- ", res[1], ": ", res[2], " (Region: ", res[3], ")">>

summary_message_unseparated(data) == Join(Map(data, summary_line), << >>)

summary_message_of(data) == Join(Map(data, summary_line), <<NL>>)

\* the f-string of the alert: a fixed template with three holes
alert_message_of(s3_msg, summary, data) ==
    [s3_message |-> s3_msg,
     summary    |-> IF summary # << >> THEN summary ELSE NO_UNUSED_RESOURCES,
     total      |-> Len(data)]

ALERT_SUBJECT == "AWS Unused Resources Report"
SUCCESS == [statusCode |-> STATUS_OK, body |-> "\"Execution Completed\""]
NoResult == [statusCode |-> 0, body |-> ""]
NoAlert == [s3_message |-> << >>, summary |-> << >>, total |-> 0]

---------------------------------------------------------------------------
(* The account. A resource is a pair <<kind, descriptor>>; each list call  *)
(* answers the descriptors of its kind, in the order of the inventory.     *)

\* the clock of the invocation, late enough for every launch time to be >= 0
Clock == (EC2_DEFAULT_DAYS + EBS_DEFAULT_DAYS + MaxAgeDays + 1) * HoursPerDay

Instance(id, age) ==
    [InstanceId |-> id, Placement |-> [AvailabilityZone |-> "us-east-1a"],
     LaunchTime |-> Clock - age]

Volume(id, age) ==
    [VolumeId |-> id, AvailabilityZone |-> "us-east-1b", CreateTime |-> Clock - age]

\* one hour short of the default threshold, and exactly at it
EC2Instances ==
    {Instance("i-1", EC2_DEFAULT_DAYS * HoursPerDay - 1),
     Instance("i-2", EC2_DEFAULT_DAYS * HoursPerDay)}

EBSVolumes ==
    {Volume("vol-1", EBS_DEFAULT_DAYS * HoursPerDay - 1),
     Volume("vol-2", EBS_DEFAULT_DAYS * HoursPerDay)}

Addresses ==
    {[PublicIp |-> "203.0.113.1", NetworkBorderGroup |-> "us-east-1"],
     [PublicIp |-> "203.0.113.2", NetworkBorderGroup |-> "us-east-1", InstanceId |-> "i-1"]}

LoadBalancers ==
    {[LoadBalancerName |-> "lb-1", AvailabilityZones |-> <<[ZoneName |-> "us-east-1a"]>>,
      State |-> [Code |-> "active"]],
     [LoadBalancerName |-> "lb-2", AvailabilityZones |-> <<[ZoneName |-> "us-east-1b"]>>,
      State |-> [Code |-> "provisioning"]]}

DBInstances ==
    {[DBInstanceIdentifier |-> "db-1", AvailabilityZone |-> "us-east-1a",
      DBInstanceStatus |-> "stopped"],
     [DBInstanceIdentifier |-> "db-2", AvailabilityZone |-> "us-east-1b",
      DBInstanceStatus |-> "available"]}

\* an empty bucket, a bucket holding an object, a bucket whose listing is
\* refused, a bucket whose location lookup is refused
Buckets ==
    {[Name |-> "bkt-empty", LocationConstraint |-> "eu-west-1", Objects |-> "NoContents"],
     [Name |-> "bkt-full", LocationConstraint |-> "eu-west-1", Objects |-> "Contents"],
     [Name |-> "bkt-nolist", LocationConstraint |-> "eu-west-2", Objects |-> ERROR],
     [Name |-> "bkt-noloc", LocationConstraint |-> ERROR, Objects |-> "NoContents"]}

TableNames == {"table-1", "table-2"}

Distributions == {[Id |-> "E1", Enabled |-> TRUE], [Id |-> "E2", Enabled |-> FALSE]}

Functions == {[FunctionName |-> "fn-1"], [FunctionName |-> "fn-2"]}

Tagged(kind, S) == {<<kind, d>> : d \in S}

Resources ==
    Tagged("ec2", EC2Instances) \cup Tagged("ebs", EBSVolumes)
    \cup Tagged("eip", Addresses) \cup Tagged("elb", LoadBalancers)
    \cup Tagged("rds", DBInstances) \cup Tagged("s3", Buckets)
    \cup Tagged("ddb", TableNames) \cup Tagged("cf", Distributions)
    \cup Tagged("lam", Functions)

OfKind(inventory, kind) ==
    Map(SelectSeq(inventory, LAMBDA r : r[1] = kind), LAMBDA r : r[2])

\* describe_instances groups instances in reservations: one reservation for
\* all of them (grouped) or one reservation each
Reservations(instances, grouped) ==
    IF instances = << >> THEN << >>
    ELSE IF grouped THEN <<[Instances |-> instances]>>
    ELSE Map(instances, LAMBDA i : [Instances |-> <<i>>])

\* list_distributions leaves "Items", or the whole "DistributionList", out
\* of an answer without distributions
CFShapes == {"Items", "NoItems", "NoDistributionList"}

ListDistributions(items, shape) ==
    IF items # << >> \/ shape = "Items"
    THEN [DistributionList |-> [Items |-> items, Quantity |-> Len(items)]]
    ELSE IF shape = "NoItems"
    THEN [DistributionList |-> [Quantity |-> 0]]
    ELSE [ResponseMetadata |-> [HTTPStatusCode |-> STATUS_OK]]

Account(inventory, grouped, shape) ==
    [ec2 |-> [Reservations |-> Reservations(OfKind(inventory, "ec2"), grouped)],
     ebs |-> [Volumes |-> OfKind(inventory, "ebs")],
     eip |-> [Addresses |-> OfKind(inventory, "eip")],
     elb |-> [LoadBalancers |-> OfKind(inventory, "elb")],
     rds |-> [DBInstances |-> OfKind(inventory, "rds")],
     s3  |-> [Buckets |-> OfKind(inventory, "s3")],
     ddb |-> [TableNames |-> OfKind(inventory, "ddb")],
     cf  |-> ListDistributions(OfKind(inventory, "cf"), shape),
     lam |-> [Functions |-> OfKind(inventory, "lam")]]

BucketNames == {NoneVal, PyStr(<< >>), PyStr(<<"my-report-bucket">>)}
TopicArns == {NoneVal, PyStr(<<"arn:aws:sns:us-east-1:111122223333:alerts">>)}

---------------------------------------------------------------------------
(* lambda_handler. *)

\* line 157: report_data = []
HandlerStart ==
    /\ pc = "get_unused_ec2_instances"
    /\ report_data = << >>
    /\ report_path = NoneVal
    /\ s3_message = << >>
    /\ summary_message = << >>
    /\ alert_message = NoAlert
    /\ api_calls = << >>
    /\ put_calls = << >>
    /\ publish_calls = << >>
    /\ stdout = << >>
    /\ exc = NoException
    /\ result = NoResult

Init ==
    /\ \E inventory \in SeqsUpTo(Resources, MaxResources),
          grouped \in BOOLEAN, shape \in CFShapes :
            cloud = Account(inventory, grouped, shape)
    /\ now = Clock
    /\ EC2_UNUSED_DAYS = EC2_DEFAULT_DAYS
    /\ EBS_UNUSED_DAYS = EBS_DEFAULT_DAYS
    /\ S3_BUCKET_NAME \in BucketNames
    /\ SNS_TOPIC_ARN \in TopicArns
    /\ HandlerStart

\* An exception nobody catches leaves lambda_handler.
Raise(api) ==
    /\ pc' = "raised"
    /\ exc' = api
    /\ UNCHANGED result

\* report_data.extend(probe()): the probe's one call raises, or answers and
\* the rows the probe makes of the answer are appended
Probe(here, api, rows, there) ==
    /\ pc = here
    /\ api_calls' = Append(api_calls, api)
    /\ \/ /\ Raise(api)
          /\ UNCHANGED report_data
       \/ /\ report_data' = extend(report_data, rows)
          /\ pc' = there
          /\ UNCHANGED <<exc, result>>
    /\ UNCHANGED <<config, report_path, s3_message, summary_message, alert_message,
                   put_calls, publish_calls, stdout>>

Call_get_unused_ec2_instances ==
    Probe("get_unused_ec2_instances", "describe_instances",
          get_unused_ec2_instances(cloud.ec2, now, EC2_UNUSED_DAYS),
          "get_unused_ebs_volumes")

Call_get_unused_ebs_volumes ==
    Probe("get_unused_ebs_volumes", "describe_volumes",
          get_unused_ebs_volumes(cloud.ebs, now, EBS_UNUSED_DAYS),
          "get_unused_elastic_ips")

Call_get_unused_elastic_ips ==
    Probe("get_unused_elastic_ips", "describe_addresses",
          get_unused_elastic_ips(cloud.eip), "get_unused_load_balancers")

Call_get_unused_load_balancers ==
    Probe("get_unused_load_balancers", "describe_load_balancers",
          get_unused_load_balancers(cloud.elb), "get_unused_rds_instances")

Call_get_unused_rds_instances ==
    Probe("get_unused_rds_instances", "describe_db_instances",
          get_unused_rds_instances(cloud.rds), "get_unused_s3_buckets")

\* list_buckets raises, or answers and the bucket loop runs: the loop
\* returns its rows or is left by the exception of a location lookup
Call_get_unused_s3_buckets ==
    /\ pc = "get_unused_s3_buckets"
    /\ \/ /\ api_calls' = Append(api_calls, "list_buckets")
          /\ Raise("list_buckets")
          /\ UNCHANGED report_data
       \/ LET r == get_unused_s3_buckets(cloud.s3)
          IN  /\ api_calls' = Append(api_calls, "list_buckets") \o r.calls
              /\ IF r.raised
                 THEN Raise(r.exc) /\ UNCHANGED report_data
                 ELSE /\ report_data' = extend(report_data, r.value)
                      /\ pc' = "get_unused_dynamodb_tables"
                      /\ UNCHANGED <<exc, result>>
    /\ UNCHANGED <<config, report_path, s3_message, summary_message, alert_message,
                   put_calls, publish_calls, stdout>>

Call_get_unused_dynamodb_tables ==
    Probe("get_unused_dynamodb_tables", "list_tables",
          get_unused_dynamodb_tables(cloud.ddb), "get_unused_cloudfront_distributions")

Call_get_unused_cloudfront_distributions ==
    Probe("get_unused_cloudfront_distributions", "list_distributions",
          get_unused_cloudfront_distributions(cloud.cf), "get_unused_lambda_functions")

Call_get_unused_lambda_functions ==
    Probe("get_unused_lambda_functions", "list_functions",
          get_unused_lambda_functions(cloud.lam), "save_report_to_s3")

\* line 169: report_path = save_report_to_s3(report_data)
Call_save_report_to_s3 ==
    /\ pc = "save_report_to_s3"
    /\ \E put_ok \in BOOLEAN :
         LET r == save_report_to_s3(report_data, S3_BUCKET_NAME, now, put_ok)
         IN  /\ put_calls' = put_calls \o r.puts
             /\ api_calls' = api_calls \o Map(r.puts, LAMBDA c : "put_object")
             /\ IF r.raised
                THEN Raise("put_object") /\ UNCHANGED report_path
                ELSE /\ report_path' = r.value
                     /\ pc' = "compose"
                     /\ UNCHANGED <<exc, result>>
    /\ UNCHANGED <<config, report_data, s3_message, summary_message, alert_message,
                   publish_calls, stdout>>

\* lines 170-185: the three texts
Compose ==
    /\ pc = "compose"
    /\ s3_message' = s3_message_of(report_path)
    /\ summary_message' = summary_message_of(report_data)
    /\ alert_message' = alert_message_of(s3_message', summary_message', report_data)
    /\ pc' = "send_alert"
    /\ UNCHANGED <<config, report_data, report_path, api_calls, put_calls,
                   publish_calls, stdout, exc, result>>

\* line 187: send_alert("AWS Unused Resources Report", alert_message)
Call_send_alert ==
    /\ pc = "send_alert"
    /\ \E publish_ok \in BOOLEAN :
         LET r == send_alert(ALERT_SUBJECT, alert_message, SNS_TOPIC_ARN, publish_ok)
         IN  /\ publish_calls' = publish_calls \o r.publishes
             /\ api_calls' = api_calls \o Map(r.publishes, LAMBDA c : "publish")
             /\ stdout' = stdout \o r.printed
             /\ IF r.raised
                THEN Raise("publish")
                ELSE pc' = "return" /\ UNCHANGED <<exc, result>>
    /\ UNCHANGED <<config, report_data, report_path, s3_message, summary_message,
                   alert_message, put_calls>>

\* line 189: return {"statusCode": 200, "body": json.dumps("Execution Completed")}
Return ==
    /\ pc = "return"
    /\ result' = SUCCESS
    /\ pc' = "done"
    /\ UNCHANGED <<config, report_data, report_path, s3_message, summary_message,
                   alert_message, api_calls, put_calls, publish_calls, stdout, exc>>

Next ==
    \/ Call_get_unused_ec2_instances
    \/ Call_get_unused_ebs_volumes
    \/ Call_get_unused_elastic_ips
    \/ Call_get_unused_load_balancers
    \/ Call_get_unused_rds_instances
    \/ Call_get_unused_s3_buckets
    \/ Call_get_unused_dynamodb_tables
    \/ Call_get_unused_cloudfront_distributions
    \/ Call_get_unused_lambda_functions
    \/ Call_save_report_to_s3
    \/ Compose
    \/ Call_send_alert
    \/ Return

Spec == Init /\ [][Next]_vars

---------------------------------------------------------------------------
(* The threshold study: get_unused_ec2_instances on accounts holding       *)
(* instances of every age from 0 to MaxAgeDays days, taken at the first    *)
(* and at the last hour of the day, under every threshold to MaxThreshold. *)

StudyInstances ==
    {Instance(id, d * HoursPerDay + h) :
        id \in {"i-1", "i-2"}, d \in 0..MaxAgeDays, h \in {0, HoursPerDay - 1}}

InitEC2 ==
    /\ \E inventory \in SeqsUpTo(Tagged("ec2", StudyInstances), MaxResources),
          grouped \in BOOLEAN :
            cloud = Account(inventory, grouped, "Items")
    /\ now = Clock
    /\ EC2_UNUSED_DAYS \in 0..MaxThreshold
    /\ EBS_UNUSED_DAYS = EBS_DEFAULT_DAYS
    /\ S3_BUCKET_NAME = NoneVal
    /\ SNS_TOPIC_ARN = NoneVal
    /\ HandlerStart

NextEC2 == Call_get_unused_ec2_instances

SpecEC2 == InitEC2 /\ [][NextEC2]_vars

---------------------------------------------------------------------------
(* Vocabulary of the properties. *)

\* the one list/describe call of each probe, in the order of lambda_handler
ProbeApis ==
    <<"describe_instances", "describe_volumes", "describe_addresses",
      "describe_load_balancers", "describe_db_instances", "list_buckets",
      "list_tables", "list_distributions", "list_functions">>

\* all nine probes have returned
ProbesReturned ==
    \/ pc \in {"save_report_to_s3", "compose", "send_alert", "return", "done"}
    \/ pc = "raised" /\ exc \in {"put_object", "publish"}

\* lines 170-185 have run
Composed ==
    \/ pc \in {"send_alert", "return", "done"}
    \/ pc = "raised" /\ exc = "publish"

\* get_unused_s3_buckets was entered and its list_buckets call answered
BucketsListed ==
    /\ "list_buckets" \in Range(api_calls)
    /\ exc # "list_buckets"

\* get_unused_s3_buckets has returned
BucketProbeReturned == BucketsListed /\ exc # "get_bucket_location"

Count(calls, api) == Cardinality({i \in 1..Len(calls) : calls[i] = api})

\* text.split("\n") of a token sequence
RECURSIVE SplitLines(_, _, _)
SplitLines(text, line, lines) ==
    IF text = << >> THEN Append(lines, line)
    ELSE IF Head(text) = NL THEN SplitLines(Tail(text), << >>, Append(lines, line))
    ELSE SplitLines(Tail(text), Append(line, Head(text)), lines)

AllInstances == Flatten(Map(cloud.ec2.Reservations, LAMBDA r : r.Instances))

\* the whole days d elapsed since the launch: d days <= now - launch < d+1 days
IdleAge(i) ==
    CHOOSE d \in -1..(MaxAgeDays + 1) :
        /\ d * HoursPerDay <= now - i.LaunchTime
        /\ now - i.LaunchTime < (d + 1) * HoursPerDay

EC2Row(i, d) == <<"EC2 Instance", i.InstanceId, i.Placement.AvailabilityZone, PyInt(d)>>

---------------------------------------------------------------------------
(* The properties. *)

\* C1: a probe whose call raises does not end the invocation: lambda_handler
\* is never left by the exception of one of the nine list/describe calls (the
\* probes before it have returned, and report_data holds their rows).
C1_ProbeFailureTolerated ==
    exc \in Range(ProbeApis) => pc # "raised"

\* C2: a put_object that raises does not end the invocation; publish is
\* still called, with the 'No S3 report generated' line in the body.
C2_StorageFailureTolerated ==
    /\ ~(pc = "raised" /\ exc = "put_object")
    /\ (exc = "put_object" /\ Composed) => alert_message.s3_message = NO_S3_REPORT

\* C3: a publish that raises is swallowed by send_alert: lambda_handler is
\* not left by its exception and goes on to return the success result.
C3_NotificationFailureSwallowed ==
    exc = "publish" => pc \in {"return", "done"}

\* C4 (as stated): with a bucket configured and no finding, the summary is
\* the sentinel, the total is 0 and put_object is called once, with a
\* header-only document.
C4_EmptyReportStored ==
    (Composed /\ Truthy(S3_BUCKET_NAME) /\ report_data = << >>) =>
        /\ alert_message.summary = NO_UNUSED_RESOURCES
        /\ alert_message.total = 0
        /\ Len(put_calls) = 1
        /\ put_calls[1].Body = <<CSV_HEADER>>

\* C4 (amended): with a bucket configured and no finding, the summary is the
\* sentinel, the total is 0, put_object is not called at all and the body
\* carries the 'No S3 report generated' line.
C4_EmptyReportNotStored ==
    (Composed /\ Truthy(S3_BUCKET_NAME) /\ report_data = << >>) =>
        /\ alert_message.summary = NO_UNUSED_RESOURCES
        /\ alert_message.total = 0
        /\ put_calls = << >>
        /\ "put_object" \notin Range(api_calls)
        /\ alert_message.s3_message = NO_S3_REPORT
        /\ \A i \in 1..Len(publish_calls) : publish_calls[i].Message = alert_message

C4_Witness ==
    /\ pc = "done"
    /\ Truthy(S3_BUCKET_NAME)
    /\ report_data = << >>
    /\ Len(publish_calls) = 1
    /\ publish_calls[1].Message.total = 0

\* C5: once the nine probes have returned, report_data is the rows of the
\* EC2, EBS, Elastic IP, Load Balancer, RDS, S3, DynamoDB, CloudFront and
\* Lambda probes, in this order, each probe's rows as the probe returned them.
C5_ReportIsConcatenation ==
    ProbesReturned =>
        report_data =
            get_unused_ec2_instances(cloud.ec2, now, EC2_UNUSED_DAYS)
            \o get_unused_ebs_volumes(cloud.ebs, now, EBS_UNUSED_DAYS)
            \o get_unused_elastic_ips(cloud.eip)
            \o get_unused_load_balancers(cloud.elb)
            \o get_unused_rds_instances(cloud.rds)
            \o get_unused_s3_buckets(cloud.s3).value
            \o get_unused_dynamodb_tables(cloud.ddb)
            \o get_unused_cloudfront_distributions(cloud.cf)
            \o get_unused_lambda_functions(cloud.lam)

\* two probes contributed a row each
C5_Witness ==
    /\ pc = "done"
    /\ Len(report_data) = 2
    /\ report_data[1][1] # report_data[2][1]

C7_NoStorageWhenUnset ==
    ~Truthy(S3_BUCKET_NAME) =>
        /\ put_calls = << >>
        /\ "put_object" \notin Range(api_calls)
        /\ Composed => alert_message.s3_message = NO_S3_REPORT
        /\ \A i \in 1..Len(publish_calls) :
              publish_calls[i].Message.s3_message = NO_S3_REPORT

C7_Witness ==
    /\ pc = "done"
    /\ S3_BUCKET_NAME = NoneVal
    /\ report_data # << >>
    /\ Len(publish_calls) = 1

\* C8: the summary of a non-empty report splits into exactly one line per
\* finding, the i-th line being that of the i-th finding; the summary placed
\* in the body of an empty report is the sentinel, not the empty string.
C8_SummaryLines ==
    Composed =>
        IF report_data # << >>
        THEN /\ SplitLines(summary_message, << >>, << >>) = Map(report_data, summary_line)
             /\ alert_message.summary = summary_message
        ELSE /\ alert_message.summary = NO_UNUSED_RESOURCES
             /\ alert_message.summary # << >>

C8_Witness ==
    /\ pc = "done"
    /\ Len(report_data) = 2
    /\ Len(publish_calls) = 1
    /\ Len(SplitLines(publish_calls[1].Message.summary, << >>, << >>)) = 2

\* C9: a bucket whose location lookup or object listing raises is skipped:
\* the exception does not leave get_unused_s3_buckets, and the probe returns
\* the rows of the empty buckets among the others.
C9_BucketErrorSkipsBucket ==
    /\ exc # "get_bucket_location"
    /\ BucketProbeReturned =>
          SelectSeq(report_data, LAMBDA row : row[1] = "S3 Bucket")
              = Map(SelectSeq(cloud.s3.Buckets,
                              LAMBDA b : /\ b.LocationConstraint # ERROR
                                         /\ b.Objects = "NoContents"),
                    LAMBDA b : <<"S3 Bucket", b.Name, b.LocationConstraint, DASH>>)

\* C10: put_object and publish are called at most once each; publish comes
\* after the nine list/describe calls and after the storage step; the success
\* result is there only once send_alert has returned.
C10_CallOrder ==
    /\ Count(api_calls, "put_object") <= 1 /\ Len(put_calls) <= 1
    /\ Count(api_calls, "publish") <= 1 /\ Len(publish_calls) <= 1
    /\ \A i \in 1..Len(api_calls) :
          api_calls[i] = "publish" =>
              /\ \A k \in 1..Len(ProbeApis) :
                    \E j \in 1..(i - 1) : api_calls[j] = ProbeApis[k]
              /\ \A j \in 1..Len(api_calls) : api_calls[j] = "put_object" => j < i
    /\ publish_calls # << >> => Composed
    /\ pc \in {"save_report_to_s3", "compose"} => publish_calls = << >>
    /\ result # NoResult =>
          /\ result = SUCCESS
          /\ pc = "done"
          /\ IF Truthy(SNS_TOPIC_ARN) THEN Len(publish_calls) = 1 ELSE stdout # << >>

C10_Witness ==
    /\ pc = "done"
    /\ result = SUCCESS
    /\ api_calls = ProbeApis \o <<"put_object", "publish">>

====
